---- MODULE Spec2Model ----
(***************************************************************************)
(* Model of the translation facade: the GraphService of                   *)
(* shared/services/graph_service.py (token cache, folder resolver, upload  *)
(* orchestrator) and the HTTP handlers of function_app.py.                 *)
(*                                                                         *)
(* Conventions.                                                            *)
(*  - Python None is 0: token ids start at 1, and an expiry of 0 is as     *)
(*    falsy as None in the truthiness test of line 121.                    *)
(*  - Time is in seconds.  In-process steps take no time: the clock moves  *)
(*    only while every thread is idle or has a request in flight.          *)
(*  - Each thread is at a program point pc[p] named after the source line  *)
(*    it is about to execute (gat_ = _get_access_token, ef_ =              *)
(*    _ensure_folder_exists, up_ = upload_to_onedrive, gr_ = get_result).  *)
(*  - A text is a sequence of one-character strings.                       *)
(***************************************************************************)
EXTENDS Integers, Sequences, FiniteSets, TLC

\* ------------------------------------------------------------------ bounds
\* The clock's first reading and the last instant the model lets it reach.
Epoch == 1000
MaxTime == 4400
\* How many tokens the identity provider issues in one behaviour.
MaxTokens == 2
\* Longest blob name given to get_result.
MaxNameLen == 3

\* ------------------------------------------------------- program constants
\* graph_service.py:123, "5 min de marge".
Margin == 300
\* graph_service.py:139, the lifetime assumed when the response names none.
DefaultLifetime == 3600

None == 0
Truthy(x) == x # None

\* Clock advances offered between steps, and the lifetimes the identity
\* provider gives its tokens.
TickSteps == {3000, 3300, 3400}
Lifetimes == {200, DefaultLifetime}

\* expires_in as the response body carries it: an integer lifetime, the field
\* missing, or a value time.time() cannot be added to (a string).
EiAbsent == "absent"
EiUnusable == "unusable"
EiInt == "int"

Statuses == {200, 201, 204, 500}
\* The status logged for a request that raised instead of answering.
TransportError == 0
\* A "2xx" status, in the words of the specification.
Is2xx(s) == s >= 200 /\ s <= 299

VARIABLES
    procs,              \* the threads of the worker process
    now,                \* time.time()
    _access_token,      \* GraphService._access_token
    _token_expires_at,  \* GraphService._token_expires_at
    configured,         \* Config.is_onedrive_enabled()
    onedrive_upload_enabled, \* GraphService.onedrive_upload_enabled
    issued,             \* identity provider: token id -> [at, life]
    pc,                 \* thread -> program point
    op,                 \* thread -> operation it was asked to perform
    expires_in,         \* thread -> local expires_in of _get_access_token
    access_token,       \* thread -> local access_token of upload_to_onedrive
    folder_id,          \* thread -> local folder_id of upload_to_onedrive
    net,                \* thread -> requests issued by its current operation
    entry,              \* thread -> cache and clock when it entered _get_access_token
    tokret,             \* thread -> what its last _get_access_token returned
    upres,              \* thread -> what its last upload_to_onedrive returned
    http                \* thread -> its last HTTP response

vars == <<procs, now, _access_token, _token_expires_at, configured,
          onedrive_upload_enabled, issued, pc, op, expires_in, access_token,
          folder_id, net, entry, tokret, upres, http>>

\* ------------------------------------------------------------ plain values
NoEntry == [tok |-> None, exp |-> None, at |-> 0, prev |-> None]
NoTokret == [tok |-> None, at |-> 0, via |-> "none"]
NoUpres == [success |-> FALSE, kind |-> "none"]
NoResp == [status |-> 0, ok |-> FALSE, data |-> <<>>]
NoHttp == [h |-> "none", req |-> <<>>, lookup |-> <<>>, raised |-> "none", resp |-> NoResp]
NoExpiresIn == [k |-> EiAbsent, v |-> 0]

\* Program points at which the thread has a request in flight.
NetPcs == {"gat_134", "ef_161", "ef_180", "up_84", "gfc_252", "df_307"}

\* The true expiry of an issued token, as the identity provider knows it.
TokenExp(id) == issued[id].at + issued[id].life

\* ------------------------------------------------ GraphService, token cache
\* graph_service.py:121, `if self._access_token and self._token_expires_at`.
CacheUsable(tok, exp) == Truthy(tok) /\ Truthy(exp)

\* graph_service.py:123, `time.time() < self._token_expires_at - 300`.
StillValidInverted(t, exp) == t > exp - Margin
StillValid(t, exp) == t < exp - Margin

\* graph_service.py:139, `token_data.get('expires_in', 3600)`.
GetExpiresIn(field) ==
    IF field.k = EiAbsent THEN [k |-> EiInt, v |-> DefaultLifetime] ELSE field

\* graph_service.py:142, `time.time() + expires_in`.
ExpiresAt(t, ei) == t + ei

\* Where _get_access_token returns to: line 57 of upload_to_onedrive, line
\* 231 of get_folder_contents or line 297 of delete_file.
AfterToken(o) ==
    IF o = "get_folder_contents" THEN "gfc_232"
    ELSE IF o = "delete_file" THEN "df_298"
    ELSE "up_58"

\* Where _ensure_folder_exists returns to: line 65 of upload_to_onedrive or
\* line 240 of get_folder_contents.
AfterFolder(o) == IF o = "get_folder_contents" THEN "gfc_242" ELSE "up_66"

\* `return` of _get_access_token: the caller's local access_token receives
\* the value.
ReturnToken(p, v, via) ==
    /\ tokret' = [tokret EXCEPT ![p] = [tok |-> v, at |-> now, via |-> via]]
    /\ pc' = [pc EXCEPT ![p] = AfterToken(op[p])]
    /\ access_token' = [access_token EXCEPT ![p] = v]

\* Entry of _get_access_token (line 117): remember what the cache held, the
\* clock, and what the thread's previous call returned.
EnterGat(p) ==
    entry' = [entry EXCEPT ![p] =
                [tok |-> _access_token, exp |-> _token_expires_at, at |-> now,
                 prev |-> tokret[p].tok]]

\* The thread has no operation in hand.
Ready(p) == pc[p] = "idle" /\ op[p] = "none"

\* A caller starts an operation on a thread that has none in hand.
StartOp(p, o, at, h) ==
    /\ Ready(p)
    /\ op' = [op EXCEPT ![p] = o]
    /\ pc' = [pc EXCEPT ![p] = at]
    /\ http' = [http EXCEPT ![p] = h]
    /\ UNCHANGED <<expires_in, access_token, folder_id, net, upres>>

\* The caller has its answer: the operation's locals and records are gone.
\* Only the token the thread's last _get_access_token returned is kept, for
\* the next call to be compared with.
Done(p) ==
    /\ pc[p] = "idle"
    /\ op[p] # "none"
    /\ op' = [op EXCEPT ![p] = "none"]
    /\ net' = [net EXCEPT ![p] = <<>>]
    /\ entry' = [entry EXCEPT ![p] = NoEntry]
    /\ tokret' = [tokret EXCEPT ![p] = [tok |-> @.tok, at |-> 0, via |-> "none"]]
    /\ upres' = [upres EXCEPT ![p] = NoUpres]
    /\ http' = [http EXCEPT ![p] = NoHttp]
    /\ expires_in' = [expires_in EXCEPT ![p] = NoExpiresIn]
    /\ access_token' = [access_token EXCEPT ![p] = None]
    /\ folder_id' = [folder_id EXCEPT ![p] = None]
    /\ UNCHANGED <<procs, now, _access_token, _token_expires_at, configured,
                   onedrive_upload_enabled, issued, pc>>

\* Line 121: is there a cached token with an expiry?
Gat121(p) ==
    /\ pc[p] = "gat_121"
    /\ pc' = [pc EXCEPT ![p] =
                IF CacheUsable(_access_token, _token_expires_at)
                  THEN "gat_123" ELSE "gat_134"]
    /\ UNCHANGED <<procs, now, _access_token, _token_expires_at, configured,
                   onedrive_upload_enabled, issued, op, expires_in,
                   access_token, folder_id, net, entry, tokret, upres, http>>

\* Line 123: is the cached expiry more than the margin away?
Gat123(p) ==
    /\ pc[p] = "gat_123"
    /\ pc' = [pc EXCEPT ![p] =
                IF StillValid(now, _token_expires_at)
                  THEN "gat_124" ELSE "gat_134"]
    /\ UNCHANGED <<procs, now, _access_token, _token_expires_at, configured,
                   onedrive_upload_enabled, issued, op, expires_in,
                   access_token, folder_id, net, entry, tokret, upres, http>>

\* Line 124: `return self._access_token`, the cache hit.
Gat124(p) ==
    /\ pc[p] = "gat_124"
    /\ ReturnToken(p, _access_token, "cache")
    /\ UNCHANGED <<procs, now, _access_token, _token_expires_at, configured,
                   onedrive_upload_enabled, issued, op, expires_in,
                   folder_id, net, entry, upres, http>>

\* Lines 134-148, the exchange fails: requests.post raises, the status is
\* not 200, or response.json() raises.  The except clause (150-152) and the
\* else branch (146-148) both return None and write nothing.
Gat134Fail(p) ==
    /\ pc[p] = "gat_134"
    /\ \E s \in (Statuses \ {200}) \cup {TransportError, 200} :
         net' = [net EXCEPT ![p] = Append(@, [req |-> "token", status |-> s])]
    /\ ReturnToken(p, None, "failed")
    /\ UNCHANGED <<procs, now, _access_token, _token_expires_at, configured,
                   onedrive_upload_enabled, issued, op, expires_in,
                   folder_id, entry, upres, http>>

\* The 200 bodies an identity provider that keeps to the protocol sends for
\* a token of lifetime `life`: the token, and expires_in as an integer or,
\* for the default lifetime, left out.
HonestBodies(life) ==
    {[token |-> TRUE, ei |-> [k |-> EiInt, v |-> life]]}
    \cup {[token |-> TRUE, ei |-> [k |-> EiAbsent, v |-> 0]] : x \in {life} \cap {DefaultLifetime}}

\* Every 200 body the code accepts as JSON: also expires_in as a string, and
\* a body without access_token.
AnyBodies(life) ==
    HonestBodies(life)
    \cup {[token |-> TRUE, ei |-> [k |-> EiUnusable, v |-> 0]],
          [token |-> FALSE, ei |-> [k |-> EiAbsent, v |-> 0]]}

\* Lines 134-139, status 200 with a JSON body: line 138 stores the body's
\* access_token (None when the body has none) and line 139 reads expires_in.
\* The provider issues a token of some lifetime when the body carries one.
Exchange(p, body) ==
    /\ pc[p] = "gat_134"
    /\ net' = [net EXCEPT ![p] = Append(@, [req |-> "token", status |-> 200])]
    /\ IF body.token
         THEN /\ Len(issued) < MaxTokens
              /\ _access_token' = Len(issued) + 1
         ELSE /\ issued' = issued
              /\ _access_token' = None
    /\ expires_in' = [expires_in EXCEPT ![p] = GetExpiresIn(body.ei)]
    /\ pc' = [pc EXCEPT ![p] = "gat_142"]
    /\ UNCHANGED <<procs, now, _token_expires_at, configured,
                   onedrive_upload_enabled, op, access_token, folder_id,
                   entry, tokret, upres, http>>

Gat134Ok(p) ==
    \E life \in Lifetimes : \E body \in AnyBodies(life) :
        /\ Exchange(p, body)
        /\ body.token => issued' = Append(issued, [at |-> now, life |-> life])

\* The same with a provider that keeps to the protocol.
Gat134Honest(p) ==
    \E life \in Lifetimes : \E body \in HonestBodies(life) :
        /\ Exchange(p, body)
        /\ issued' = Append(issued, [at |-> now, life |-> life])

\* Line 142: `self._token_expires_at = time.time() + expires_in`.  A string
\* expires_in raises TypeError here, after line 138 has stored the token;
\* the except clause returns None.
Gat142(p) ==
    /\ pc[p] = "gat_142"
    /\ IF expires_in[p].k = EiUnusable
         THEN /\ ReturnToken(p, None, "failed")
              /\ UNCHANGED _token_expires_at
         ELSE /\ _token_expires_at' = ExpiresAt(now, expires_in[p].v)
              /\ pc' = [pc EXCEPT ![p] = "gat_145"]
              /\ UNCHANGED <<tokret, access_token>>
    /\ UNCHANGED <<procs, now, _access_token, configured,
                   onedrive_upload_enabled, issued, op, expires_in,
                   folder_id, net, entry, upres, http>>

\* Line 145: `return self._access_token`, read again from the instance.
Gat145(p) ==
    /\ pc[p] = "gat_145"
    /\ ReturnToken(p, _access_token, "fresh")
    /\ UNCHANGED <<procs, now, _access_token, _token_expires_at, configured,
                   onedrive_upload_enabled, issued, op, expires_in,
                   folder_id, net, entry, upres, http>>


\* ----------------------------------------- GraphService, folder and upload
\* shared/config.py is not part of the sources at hand: whether the drive
\* integration is configured is a setting fixed at start-up.
Config_is_onedrive_enabled == configured

\* graph_service.py:35-37.
is_configured == Config_is_onedrive_enabled

\* What a drive request can come back with: an exception raised by requests
\* (or by response.json() on a body that is no JSON), or a status and a body.
\* `id` is the id the body carries (None when it carries none); `match` says
\* whether a listing holds a folder of the wanted name.
DriveResponses ==
    {[raise |-> TRUE, status |-> TransportError, json |-> FALSE, match |-> FALSE, id |-> None]}
    \cup [raise : {FALSE}, status : Statuses, json : {FALSE}, match : {FALSE}, id : {None}]
    \cup [raise : {FALSE}, status : Statuses, json : {TRUE}, match : BOOLEAN, id : {None, 1}]

\* graph_service.py:161-169, the listing step of _ensure_folder_exists:
\* "return" with the value returned, or "create" to go on to line 172.
AfterList(r) ==
    IF r.raise THEN [next |-> "return", id |-> None]
    ELSE IF r.status = 200
      THEN IF ~r.json THEN [next |-> "return", id |-> None]
           ELSE IF r.match THEN [next |-> "return", id |-> r.id]
           ELSE [next |-> "create", id |-> None]
      ELSE [next |-> "create", id |-> None]

\* graph_service.py:180-201, the creation step: the id returned.
AfterCreate(r) ==
    IF r.raise THEN None
    ELSE IF r.status \in {200, 201}
      THEN IF r.json THEN r.id ELSE None
      ELSE None

\* graph_service.py:84-115, the PUT: the result returned.
AfterPut(r) ==
    IF r.raise THEN [success |-> FALSE, kind |-> "exception"]
    ELSE IF r.status \in {200, 201}
      THEN IF r.json THEN [success |-> TRUE, kind |-> "uploaded"]
           ELSE [success |-> FALSE, kind |-> "exception"]
      ELSE [success |-> FALSE, kind |-> "http"]

\* Where a thread goes after a PUT that gave result res (line 91 on): the
\* call ends whatever the result was.
NextAfterPutRetry(res) == IF res.success THEN "return" ELSE "up_84"
NextAfterPut(res) == "return"

\* graph_service.py:58, `if not access_token`, and :66, `if not folder_id`.
NoTokenNever(tok) == FALSE
NoToken(tok) == ~Truthy(tok)
NoFolder(fid) == ~Truthy(fid)

\* `return` of upload_to_onedrive: to the caller of a direct call, or to
\* line 140 of get_translation_result.
ReturnUpload(p, res) ==
    /\ upres' = [upres EXCEPT ![p] = res]
    /\ pc' = [pc EXCEPT ![p] = IF op[p] = "upload" THEN "idle" ELSE "gr_141"]

\* A direct call of upload_to_onedrive.
CallUpload(p) ==
    /\ StartOp(p, "upload", "up_43", NoHttp)
    /\ UNCHANGED <<procs, now, _access_token, _token_expires_at, configured,
                   onedrive_upload_enabled, issued, entry, tokret>>

\* Lines 43-52, the two early returns, in the order the code takes them.
Up43Return(p) ==
    /\ pc[p] = "up_43"
    /\ ~is_configured \/ onedrive_upload_enabled = FALSE
    /\ ReturnUpload(p, IF ~is_configured
                         THEN [success |-> FALSE, kind |-> "not_configured"]
                         ELSE [success |-> TRUE, kind |-> "disabled"])
    /\ UNCHANGED <<procs, now, _access_token, _token_expires_at, configured,
                   onedrive_upload_enabled, issued, op, expires_in,
                   access_token, folder_id, net, entry, tokret, http>>

\* Line 57: the call of _get_access_token.
Up57(p) ==
    /\ pc[p] = "up_43"
    /\ is_configured /\ onedrive_upload_enabled # FALSE
    /\ pc' = [pc EXCEPT ![p] = "gat_121"]
    /\ EnterGat(p)
    /\ UNCHANGED <<procs, now, _access_token, _token_expires_at, configured,
                   onedrive_upload_enabled, issued, op, expires_in,
                   access_token, folder_id, net, tokret, upres, http>>

\* Lines 58-65: no token, no upload; else call _ensure_folder_exists.
Up58(p) ==
    /\ pc[p] = "up_58"
    /\ IF NoToken(access_token[p])
         THEN ReturnUpload(p, [success |-> FALSE, kind |-> "token"])
         ELSE /\ pc' = [pc EXCEPT ![p] = "ef_161"]
              /\ UNCHANGED upres
    /\ UNCHANGED <<procs, now, _access_token, _token_expires_at, configured,
                   onedrive_upload_enabled, issued, op, expires_in,
                   access_token, folder_id, net, entry, tokret, http>>

\* Line 161: GET root/children and what the code makes of the answer.
Ef161(p) ==
    /\ pc[p] = "ef_161"
    /\ \E r \in DriveResponses :
         /\ net' = [net EXCEPT ![p] = Append(@, [req |-> "list", status |-> r.status])]
         /\ IF AfterList(r).next = "create"
              THEN /\ pc' = [pc EXCEPT ![p] = "ef_180"]
                   /\ UNCHANGED folder_id
              ELSE /\ pc' = [pc EXCEPT ![p] = AfterFolder(op[p])]
                   /\ folder_id' = [folder_id EXCEPT ![p] = AfterList(r).id]
    /\ UNCHANGED <<procs, now, _access_token, _token_expires_at, configured,
                   onedrive_upload_enabled, issued, op, expires_in,
                   access_token, entry, tokret, upres, http>>

\* Line 180: POST root/children, the folder creation.
Ef180(p) ==
    /\ pc[p] = "ef_180"
    /\ \E r \in DriveResponses :
         /\ net' = [net EXCEPT ![p] = Append(@, [req |-> "create", status |-> r.status])]
         /\ folder_id' = [folder_id EXCEPT ![p] = AfterCreate(r)]
    /\ pc' = [pc EXCEPT ![p] = AfterFolder(op[p])]
    /\ UNCHANGED <<procs, now, _access_token, _token_expires_at, configured,
                   onedrive_upload_enabled, issued, op, expires_in,
                   access_token, entry, tokret, upres, http>>

\* Lines 66-82: no folder, no upload; else build the URL and PUT.
Up66(p) ==
    /\ pc[p] = "up_66"
    /\ IF NoFolder(folder_id[p])
         THEN ReturnUpload(p, [success |-> FALSE, kind |-> "folder"])
         ELSE /\ pc' = [pc EXCEPT ![p] = "up_84"]
              /\ UNCHANGED upres
    /\ UNCHANGED <<procs, now, _access_token, _token_expires_at, configured,
                   onedrive_upload_enabled, issued, op, expires_in,
                   access_token, folder_id, net, entry, tokret, http>>

\* Line 84: PUT the content and return the result.
Up84(p) ==
    /\ pc[p] = "up_84"
    /\ \E r \in DriveResponses :
         /\ net' = [net EXCEPT ![p] = Append(@, [req |-> "put", status |-> r.status])]
         /\ IF NextAfterPut(AfterPut(r)) = "return"
              THEN ReturnUpload(p, AfterPut(r))
              ELSE UNCHANGED <<pc, upres>>
    /\ UNCHANGED <<procs, now, _access_token, _token_expires_at, configured,
                   onedrive_upload_enabled, issued, op, expires_in,
                   access_token, folder_id, entry, tokret, http>>

UploadSteps(p) ==
    \/ CallUpload(p)
    \/ Up43Return(p)
    \/ Up57(p)
    \/ Up58(p)
    \/ Ef161(p)
    \/ Ef180(p)
    \/ Up66(p)
    \/ Up84(p)

\* ------------------------------- GraphService, listing and deleting files
\* The folder_name argument of get_folder_contents: None or a name.
FolderNames == {None, 1}

\* graph_service.py:252-280, the listing GET: the result returned.
AfterContents(r) ==
    IF r.raise THEN [success |-> FALSE, kind |-> "exception"]
    ELSE IF r.status = 200
      THEN IF r.json THEN [success |-> TRUE, kind |-> "listed"]
           ELSE [success |-> FALSE, kind |-> "exception"]
      ELSE [success |-> FALSE, kind |-> "http"]

\* graph_service.py:307-326, the DELETE: the result returned.
AfterDelete(r) ==
    IF r.raise THEN [success |-> FALSE, kind |-> "exception"]
    ELSE IF r.status = 204
      THEN [success |-> TRUE, kind |-> "deleted"]
      ELSE [success |-> FALSE, kind |-> "http"]

\* `return` of get_folder_contents and of delete_file, to their caller.
ReturnResult(p, res) ==
    /\ upres' = [upres EXCEPT ![p] = res]
    /\ pc' = [pc EXCEPT ![p] = "idle"]

\* A call of get_folder_contents.
CallGetFolderContents(p) ==
    /\ StartOp(p, "get_folder_contents", "gfc_224", NoHttp)
    /\ UNCHANGED <<procs, now, _access_token, _token_expires_at, configured,
                   onedrive_upload_enabled, issued, entry, tokret>>

\* Lines 224-228: not configured, nothing is done.
Gfc224Return(p) ==
    /\ pc[p] = "gfc_224"
    /\ ~is_configured
    /\ ReturnResult(p, [success |-> FALSE, kind |-> "not_configured"])
    /\ UNCHANGED <<procs, now, _access_token, _token_expires_at, configured,
                   onedrive_upload_enabled, issued, op, expires_in,
                   access_token, folder_id, net, entry, tokret, http>>

\* Line 231: the call of _get_access_token.
Gfc231(p) ==
    /\ pc[p] = "gfc_224"
    /\ is_configured
    /\ pc' = [pc EXCEPT ![p] = "gat_121"]
    /\ EnterGat(p)
    /\ UNCHANGED <<procs, now, _access_token, _token_expires_at, configured,
                   onedrive_upload_enabled, issued, op, expires_in,
                   access_token, folder_id, net, tokret, upres, http>>

\* Lines 232-250: no token, no listing; with a folder name the folder is
\* resolved first (line 240), without one the root is listed.  The argument
\* is read here for the first time.
Gfc232(p) ==
    /\ pc[p] = "gfc_232"
    /\ IF NoToken(access_token[p])
         THEN ReturnResult(p, [success |-> FALSE, kind |-> "token"])
         ELSE /\ \E folder_name \in FolderNames :
                   pc' = [pc EXCEPT ![p] =
                            IF Truthy(folder_name) THEN "ef_161" ELSE "gfc_252"]
              /\ UNCHANGED upres
    /\ UNCHANGED <<procs, now, _access_token, _token_expires_at, configured,
                   onedrive_upload_enabled, issued, op, expires_in,
                   access_token, folder_id, net, entry, tokret, http>>

\* Lines 241-246: no folder, no listing.
Gfc242(p) ==
    /\ pc[p] = "gfc_242"
    /\ IF NoFolder(folder_id[p])
         THEN ReturnResult(p, [success |-> FALSE, kind |-> "folder"])
         ELSE /\ pc' = [pc EXCEPT ![p] = "gfc_252"]
              /\ UNCHANGED upres
    /\ UNCHANGED <<procs, now, _access_token, _token_expires_at, configured,
                   onedrive_upload_enabled, issued, op, expires_in,
                   access_token, folder_id, net, entry, tokret, http>>

\* Line 252: GET the children and return the result.
Gfc252(p) ==
    /\ pc[p] = "gfc_252"
    /\ \E r \in DriveResponses :
         /\ net' = [net EXCEPT ![p] = Append(@, [req |-> "contents", status |-> r.status])]
         /\ ReturnResult(p, AfterContents(r))
    /\ UNCHANGED <<procs, now, _access_token, _token_expires_at, configured,
                   onedrive_upload_enabled, issued, op, expires_in,
                   access_token, folder_id, entry, tokret, http>>

ContentsSteps(p) ==
    \/ CallGetFolderContents(p)
    \/ Gfc224Return(p)
    \/ Gfc231(p)
    \/ Gfc232(p)
    \/ Gfc242(p)
    \/ Gfc252(p)

\* A call of delete_file.
CallDeleteFile(p) ==
    /\ StartOp(p, "delete_file", "df_290", NoHttp)
    /\ UNCHANGED <<procs, now, _access_token, _token_expires_at, configured,
                   onedrive_upload_enabled, issued, entry, tokret>>

\* Lines 290-294: not configured, nothing is done.
Df290Return(p) ==
    /\ pc[p] = "df_290"
    /\ ~is_configured
    /\ ReturnResult(p, [success |-> FALSE, kind |-> "not_configured"])
    /\ UNCHANGED <<procs, now, _access_token, _token_expires_at, configured,
                   onedrive_upload_enabled, issued, op, expires_in,
                   access_token, folder_id, net, entry, tokret, http>>

\* Line 297: the call of _get_access_token.
Df297(p) ==
    /\ pc[p] = "df_290"
    /\ is_configured
    /\ pc' = [pc EXCEPT ![p] = "gat_121"]
    /\ EnterGat(p)
    /\ UNCHANGED <<procs, now, _access_token, _token_expires_at, configured,
                   onedrive_upload_enabled, issued, op, expires_in,
                   access_token, folder_id, net, tokret, upres, http>>

\* Lines 298-305: no token, no deletion.
Df298(p) ==
    /\ pc[p] = "df_298"
    /\ IF NoToken(access_token[p])
         THEN ReturnResult(p, [success |-> FALSE, kind |-> "token"])
         ELSE /\ pc' = [pc EXCEPT ![p] = "df_307"]
              /\ UNCHANGED upres
    /\ UNCHANGED <<procs, now, _access_token, _token_expires_at, configured,
                   onedrive_upload_enabled, issued, op, expires_in,
                   access_token, folder_id, net, entry, tokret, http>>

\* Line 307: DELETE the item and return the result.
Df307(p) ==
    /\ pc[p] = "df_307"
    /\ \E r \in DriveResponses :
         /\ net' = [net EXCEPT ![p] = Append(@, [req |-> "delete", status |-> r.status])]
         /\ ReturnResult(p, AfterDelete(r))
    /\ UNCHANGED <<procs, now, _access_token, _token_expires_at, configured,
                   onedrive_upload_enabled, issued, op, expires_in,
                   access_token, folder_id, entry, tokret, http>>

DeleteSteps(p) ==
    \/ CallDeleteFile(p)
    \/ Df290Return(p)
    \/ Df297(p)
    \/ Df298(p)
    \/ Df307(p)


\* ------------------------------------------------------ function_app.py
\* shared/utils/response_helper.py is not part of the sources at hand: a
\* response is its status and its payload, an error response its status
\* and its message.
create_response(data, status) == [status |-> status, ok |-> TRUE, data |-> data]
create_error_response(message, status) == [status |-> status, ok |-> FALSE, data |-> message]

\* What a handler did: the response, and the exception that reached its
\* catch-all ("none" when none did).
Answer(resp) == [raised |-> "none", resp |-> resp]

\* The catch-all of each handler: function_app.py:88-90, 105-107, 145-147,
\* 187-189, 207-209 and 227-229.
StartTranslationExcept(e) ==
    [raised |-> e, resp |-> create_error_response(<<"Erreur lors de la traduction", e>>, 500)]
CheckStatusExceptNotFound(e) ==
    [raised |-> e, resp |-> create_error_response(<<"Erreur interne", e>>, 404)]
CheckStatusExcept(e) ==
    [raised |-> e, resp |-> create_error_response(<<"Erreur interne", e>>, 500)]
GetResultExcept(e) ==
    [raised |-> e, resp |-> create_error_response(<<"Erreur interne", e>>, 500)]
HealthExcept(e) ==
    [raised |-> e, resp |-> create_error_response(<<"Service unhealthy", e>>, 503)]
LanguagesExcept(e) ==
    [raised |-> e, resp |-> create_error_response(<<"Erreur interne", e>>, 500)]
FormatsExcept(e) ==
    [raised |-> e, resp |-> create_error_response(<<"Erreur interne", e>>, 500)]

\* A field of the start_translation body: not there, there with a value the
\* services cannot use, or there with a usable value.
FieldStates == {"missing", "invalid", "valid"}

\* The start_translation requests: no body, a body that is no JSON, a JSON
\* number, or a JSON object with some of the fields; `blob` is whether the
\* blob store holds the named source blob.
StartRequests ==
    [body : {"empty", "badjson", "number"}, blob_name : {"missing"},
     target_language : {"missing"}, user_id : {"missing"}, blob : {"absent"}]
    \cup [body : {"object"}, blob_name : {"missing"},
          target_language : FieldStates, user_id : FieldStates, blob : {"absent"}]
    \cup [body : {"object"}, blob_name : {"invalid", "valid"},
          target_language : FieldStates, user_id : FieldStates,
          blob : {"absent", "exists"}]

\* The job identifiers the translation engine assigns (opaque strings).
JobIds == {"job1", "job2"}

\* What the services start_translation calls can do: the blob store answers
\* or raises, the URL preparation and the translation engine succeed or
\* raise.
StartDeps == [store : {"ok", "raise"}, prepare : {"ok", "raise"},
              engine : JobIds \cup {"raise"}]

\* shared/services/translation_service.py is not part of the sources at
\* hand: start_translation returns the job identifier the engine assigned,
\* or raises.
TranslationService_start_translation(outcome) ==
    IF outcome = "raise" THEN [raised |-> TRUE, id |-> ""]
    ELSE [raised |-> FALSE, id |-> outcome]

\* function_app.py:51-54: the first required field the body lacks, or "".
MissingFieldOrInvalid(req) ==
    IF req.blob_name # "valid" THEN "blob_name"
    ELSE IF req.target_language # "valid" THEN "target_language"
    ELSE IF req.user_id # "valid" THEN "user_id"
    ELSE ""
MissingField(req) ==
    IF req.blob_name = "missing" THEN "blob_name"
    ELSE IF req.target_language = "missing" THEN "target_language"
    ELSE IF req.user_id = "missing" THEN "user_id"
    ELSE ""

\* function_app.py:42-90.  The identifier the translation engine returned
\* goes into the 202 payload as it is (lines 72-80).
StartTranslation(req, deps) ==
    IF req.body = "empty"
      THEN Answer(create_error_response(<<"Corps de requete manquant", "">>, 400))
    ELSE IF req.body = "badjson"
      THEN Answer(create_error_response(<<"JSON invalide", "ValueError">>, 400))
    ELSE IF req.body = "number"
      THEN StartTranslationExcept("TypeError")
    ELSE IF MissingField(req) # ""
      THEN Answer(create_error_response(<<"Parametre manquant", MissingField(req)>>, 400))
    ELSE IF deps.store = "raise"
      THEN StartTranslationExcept("StorageError")
    ELSE IF req.blob = "absent"
      THEN Answer(create_error_response(<<"Fichier non trouve", "">>, 404))
    ELSE IF deps.prepare = "raise"
      THEN StartTranslationExcept("SasError")
    ELSE IF TranslationService_start_translation(deps.engine).raised
      THEN StartTranslationExcept("EngineError")
    ELSE Answer(create_response(
                  [success |-> TRUE,
                   translation_id |-> TranslationService_start_translation(deps.engine).id,
                   status |-> "En cours"], 202))

\* function_app.py:93-107.
CheckTranslationStatus(tid, outcome) ==
    IF tid = "" THEN Answer(create_error_response(<<"ID de traduction manquant", "">>, 400))
    ELSE IF outcome = "raise" THEN CheckStatusExcept("StatusError")
    ELSE IF outcome = "success" THEN Answer(create_response([status |-> "job status"], 200))
    ELSE Answer(create_error_response(<<"unknown job", "">>, 404))

\* function_app.py:150-189.  `missing` is whether one of the four required
\* environment variables is unset.
HealthCheck(missing, outcome) ==
    IF outcome = "raise" THEN HealthExcept("HealthError")
    ELSE IF missing
      THEN Answer(create_error_response(<<"Variables d'environnement manquantes", "">>, 503))
    ELSE Answer(create_response(
             [status |-> "healthy",
              onedrive |-> IF onedrive_upload_enabled THEN "available" ELSE "not configured"],
             200))

\* function_app.py:192-209 and 212-229.
GetSupportedLanguages(outcome) ==
    IF outcome = "raise" THEN LanguagesExcept("SchemaError")
    ELSE Answer(create_response([languages |-> "all"], 200))
GetSupportedFormats(outcome) ==
    IF outcome = "raise" THEN FormatsExcept("SchemaError")
    ELSE Answer(create_response([formats |-> "all"], 200))

\* Blob names: the texts over a letter and the dot, up to MaxNameLen long.
Chars == {"a", "."}
Texts(n) == UNION {[1..k -> Chars] : k \in 0..n}
Lang == <<"e", "s">>

\* str.rsplit('.', 1): the text cut at its last dot, or the text alone.
LastDot(t) ==
    LET dots == {i \in 1..Len(t) : t[i] = "."}
    IN  IF dots = {} THEN 0 ELSE CHOOSE i \in dots : \A j \in dots : j <= i
RSplit1(t) ==
    IF LastDot(t) = 0 THEN <<t>>
    ELSE <<SubSeq(t, 1, LastDot(t) - 1), SubSeq(t, LastDot(t) + 1, Len(t))>>

\* function_app.py:126, f"{file_base}-{target_language}.{file_ext}".
OutputBlobName(file_base, target_language, file_ext) ==
    file_base \o <<"-">> \o target_language \o <<".">> \o file_ext

\* function_app.py:116-139, get_translation_result up to the upload.  A
\* parameter left out is the empty text.  `store` says what
\* get_translated_file_url does ("url", "none" or "raise"), `download` what
\* download_translated_file does.  Status 0 stands for "goes on to line 140".
GetResultHead(blob_name, target_language, user_id, store, download) ==
    IF blob_name = <<>> \/ target_language = <<>>
      THEN [lookup |-> <<>>] @@ Answer(create_error_response(<<"Parametres manquants", "">>, 400))
    ELSE IF Len(RSplit1(blob_name)) # 2
      THEN [lookup |-> <<>>] @@ GetResultExcept("ValueError")
    ELSE LET output_blob_name ==
                 OutputBlobName(RSplit1(blob_name)[1], target_language, RSplit1(blob_name)[2])
         IN  [lookup |-> output_blob_name] @@
             (IF store = "raise" THEN GetResultExcept("StorageError")
              ELSE IF store = "none"
                THEN Answer(create_error_response(<<"Fichier traduit introuvable", "">>, 404))
              ELSE IF user_id = <<>>
                THEN Answer(create_response([download_url |-> "url"], 200))
              ELSE IF download = "raise" THEN GetResultExcept("DownloadError")
              ELSE Answer([status |-> 0, ok |-> TRUE, data |-> [download_url |-> "url"]]))

\* A handler that answers in one step.
Handle(p, h, req, ans) ==
    /\ StartOp(p, h, "idle", [h |-> h, req |-> req, lookup |-> <<>>] @@ ans)
    /\ UNCHANGED <<procs, now, _access_token, _token_expires_at, configured,
                   onedrive_upload_enabled, issued, entry, tokret>>

start_translation(p) ==
    /\ Ready(p)
    /\ \E req \in StartRequests : \E deps \in StartDeps :
           Handle(p, "start_translation", req @@ [deps |-> deps],
                  StartTranslation(req, deps))

check_translation_status(p) ==
    /\ Ready(p)
    /\ \E tid \in {"", "job"} : \E outcome \in {"success", "failure", "raise"} :
           Handle(p, "check_status", <<tid>>, CheckTranslationStatus(tid, outcome))

health_check(p) ==
    /\ Ready(p)
    /\ \E missing \in BOOLEAN : \E outcome \in {"ok", "raise"} :
           Handle(p, "health", <<missing>>, HealthCheck(missing, outcome))

get_supported_languages(p) ==
    /\ Ready(p)
    /\ \E outcome \in {"ok", "raise"} :
           Handle(p, "languages", <<>>, GetSupportedLanguages(outcome))

get_supported_formats(p) ==
    /\ Ready(p)
    /\ \E outcome \in {"ok", "raise"} :
           Handle(p, "formats", <<>>, GetSupportedFormats(outcome))

\* get_translation_result, lines 116-140: answer, or call upload_to_onedrive.
get_translation_result(p) ==
    /\ Ready(p)
    /\ \E blob_name \in Texts(MaxNameLen) : \E target_language \in {<<>>, Lang} :
       \E user_id \in {<<>>, <<"u">>} :
       \E out \in {<<"url", "ok">>, <<"url", "raise">>, <<"none", "ok">>, <<"raise", "ok">>} :
           LET store == out[1]
               ans == GetResultHead(blob_name, target_language, user_id, store, out[2])
               req == [blob_name |-> blob_name, target_language |-> target_language,
                       user_id |-> user_id,
                       store |-> IF ans.lookup = <<>> THEN "unasked" ELSE store]
           IN  /\ StartOp(p, "get_result",
                          IF ans.resp.status = 0 THEN "up_43" ELSE "idle",
                          [h |-> "get_result", req |-> req] @@ ans)
               /\ UNCHANGED <<procs, now, _access_token, _token_expires_at, configured,
                              onedrive_upload_enabled, issued, entry, tokret>>

\* Lines 141-143: the upload's result goes into the 200 response.
Gr141(p) ==
    /\ pc[p] = "gr_141"
    /\ http' = [http EXCEPT ![p].resp =
                  create_response([download_url |-> "url", onedrive_url |-> upres[p]], 200)]
    /\ pc' = [pc EXCEPT ![p] = "idle"]
    /\ UNCHANGED <<procs, now, _access_token, _token_expires_at, configured,
                   onedrive_upload_enabled, issued, op, expires_in,
                   access_token, folder_id, net, entry, tokret, upres>>

HandlerSteps(p) ==
    \/ start_translation(p)
    \/ check_translation_status(p)
    \/ get_translation_result(p)
    \/ Gr141(p)
    \/ health_check(p)
    \/ get_supported_languages(p)
    \/ get_supported_formats(p)

\* --------------------------------------------------------------- the clock
Tick ==
    /\ \A p \in procs : pc[p] \in {"idle"} \cup NetPcs
    /\ \E d \in TickSteps :
         /\ now + d <= MaxTime
         /\ now' = now + d
    /\ UNCHANGED <<procs, _access_token, _token_expires_at, configured,
                   onedrive_upload_enabled, issued, pc, op, expires_in,
                   access_token, folder_id, net, entry, tokret, upres, http>>

\* ------------------------------------------------------------------- Init
InitFor(P) ==
    /\ procs = P
    /\ now = Epoch
    /\ _access_token = None
    /\ _token_expires_at = None
    /\ configured \in BOOLEAN
    /\ onedrive_upload_enabled \in BOOLEAN
    /\ issued = <<>>
    /\ pc = [p \in P |-> "idle"]
    /\ op = [p \in P |-> "none"]
    /\ expires_in = [p \in P |-> NoExpiresIn]
    /\ access_token = [p \in P |-> None]
    /\ folder_id = [p \in P |-> None]
    /\ net = [p \in P |-> <<>>]
    /\ entry = [p \in P |-> NoEntry]
    /\ tokret = [p \in P |-> NoTokret]
    /\ upres = [p \in P |-> NoUpres]
    /\ http = [p \in P |-> NoHttp]

Init == InitFor({1})

TokenSteps(p) ==
    \/ Gat121(p)
    \/ Gat123(p)
    \/ Gat124(p)
    \/ Gat134Fail(p)
    \/ Gat134Ok(p)
    \/ Gat142(p)
    \/ Gat145(p)

\* One thread calls the GraphService, one call after the other.
Next ==
    \/ Tick
    \/ \E p \in procs : TokenSteps(p)
    \/ \E p \in procs : UploadSteps(p)
    \/ \E p \in procs : ContentsSteps(p)
    \/ \E p \in procs : DeleteSteps(p)
    \/ \E p \in procs : Done(p)

Spec == Init /\ [][Next]_vars

\* Two threads of the worker share the module-level GraphService
\* (function_app.py:35) and call delete_file, and through it
\* _get_access_token, concurrently; the identity provider keeps to the
\* protocol.
InitRace == InitFor({1, 2}) /\ onedrive_upload_enabled

TokenStepsRace(p) ==
    \/ Gat121(p)
    \/ Gat123(p)
    \/ Gat124(p)
    \/ Gat134Fail(p)
    \/ Gat134Honest(p)
    \/ Gat142(p)
    \/ Gat145(p)

NextRace ==
    \/ Tick
    \/ \E p \in procs : TokenStepsRace(p)
    \/ \E p \in procs : DeleteSteps(p)
    \/ \E p \in procs : Done(p)

SpecRace == InitRace /\ [][NextRace]_vars

\* One thread serves HTTP requests, one after the other; get_result goes
\* through upload_to_onedrive and _get_access_token.
\* The steps of _get_access_token and upload_to_onedrive as a handler
\* reaches them.
InnerSteps(p) ==
    \/ Gat121(p)
    \/ Gat123(p)
    \/ Gat124(p)
    \/ Gat134Fail(p)
    \/ Gat134Ok(p)
    \/ Gat142(p)
    \/ Gat145(p)
    \/ Up43Return(p)
    \/ Up57(p)
    \/ Up58(p)
    \/ Ef161(p)
    \/ Ef180(p)
    \/ Up66(p)
    \/ Up84(p)

NextHttp ==
    \/ \E p \in procs : HandlerSteps(p)
    \/ \E p \in procs : InnerSteps(p)
    \/ \E p \in procs : Done(p)

SpecHttp == Init /\ [][NextHttp]_vars

\* ------------------------------------------------------------------ claims
\* Remaining validity, by the identity provider's books, of the token a
\* thread's last _get_access_token returned, at the moment it was returned.
Remaining(p) == TokenExp(tokret[p].tok) - tokret[p].at

\* The thread entered _get_access_token while the cache held a token whose
\* expiry was more than 300 s away.
EntryValid(p) ==
    /\ entry[p].tok # None
    /\ entry[p].exp # None
    /\ entry[p].at < entry[p].exp - 300

\* C1, as stated: every token returned by _get_access_token has at least
\* 300 s of validity left at the moment it is returned.
C1_EveryTokenHasMargin ==
    \A p \in procs :
        (tokret[p].via # "none" /\ tokret[p].tok # None) => Remaining(p) >= 300

\* C2, as stated: with a provider that keeps to the protocol, under every
\* interleaving of calls of _get_access_token no call returns a token that
\* has already expired, and once the calls are over the cache does not hold
\* a token with an expiry later than the token's own.
C2_RaceIsBenign ==
    /\ \A p \in procs :
           (tokret[p].via # "none" /\ tokret[p].tok # None)
               => TokenExp(tokret[p].tok) > tokret[p].at
    /\ ((\A p \in procs : pc[p] = "idle") /\ _access_token # None)
           => _token_expires_at <= TokenExp(_access_token)

\* C3: a call of _get_access_token made while the cache holds a token whose
\* expiry is more than 300 s away issues no request, returns the cached
\* token, which is the one the previous call returned, and leaves the cached
\* value and expiry as they were.
C3_CacheHitIsFree ==
    \A p \in procs :
        (tokret[p].via # "none" /\ EntryValid(p)) =>
            /\ tokret[p].tok = entry[p].tok
            /\ entry[p].prev # None => tokret[p].tok = entry[p].prev
            /\ \A i \in 1..Len(net[p]) : net[p][i].req # "token"
            /\ _access_token = entry[p].tok
            /\ _token_expires_at = entry[p].exp

\* C3, witness: a delete_file whose token call found the cache valid has
\* returned, after an earlier call of the same thread returned a token.
C3_Witness ==
    \E p \in procs :
        /\ op[p] = "delete_file"
        /\ pc[p] = "idle"
        /\ tokret[p].via # "none"
        /\ EntryValid(p)
        /\ entry[p].prev # None
        /\ entry[p].at > Epoch

\* How many requests of a kind the thread's current operation has issued.
Count(p, kind) == Cardinality({i \in 1..Len(net[p]) : net[p][i].req = kind})

\* C4, as stated: with the feature flag off, upload_to_onedrive returns
\* success with the "disabled" note and issues no request, whatever the rest
\* of the drive configuration.
C4_DisabledIsSuccessNoNetwork ==
    \A p \in procs :
        (/\ op[p] \notin {"get_folder_contents", "delete_file"}
         /\ upres[p].kind # "none"
         /\ ~onedrive_upload_enabled) =>
            /\ upres[p].success
            /\ upres[p].kind = "disabled"
            /\ net[p] = <<>>

\* C5, as stated: in _ensure_folder_exists a listing answered with a status
\* outside 200..299 is followed by no create request and yields no folder
\* id, and a folder id is returned only when every request of the resolver
\* was answered with a 2xx status.
C5_NonOkFolderResponseFails ==
    \A p \in procs :
        /\ \A i \in 1..Len(net[p]) :
               (/\ net[p][i].req = "list"
                /\ net[p][i].status # TransportError
                /\ ~Is2xx(net[p][i].status))
               => (Count(p, "create") = 0 /\ folder_id[p] = None)
        /\ folder_id[p] # None =>
               \A i \in 1..Len(net[p]) :
                   net[p][i].req \in {"list", "create"} => Is2xx(net[p][i].status)

\* C6: in upload_to_onedrive the folder requests are issued only once a
\* token was obtained, the PUT only once a token and a folder id were
\* obtained; a call that got no token issues no drive request and returns
\* the token failure, a call that got no folder id issues no PUT and returns
\* the folder failure, and the PUT is the last request: the call returns
\* after it, with a failure when the PUT was not answered 200 or 201.
C6_StepsDependOnPrevious ==
    \A p \in procs :
        op[p] = "upload" =>
            /\ (Count(p, "list") + Count(p, "create") > 0) =>
                   /\ access_token[p] # None
                   /\ tokret[p].via \in {"cache", "fresh"}
                   /\ tokret[p].tok = access_token[p]
            /\ Count(p, "put") > 0 =>
                   /\ access_token[p] # None
                   /\ folder_id[p] # None
                   /\ pc[p] = "idle"
                   /\ net[p][Len(net[p])].req = "put"
                   /\ net[p][Len(net[p])].status \notin {200, 201} => ~upres[p].success
            /\ (tokret[p].via # "none" /\ tokret[p].tok = None) =>
                   /\ Count(p, "list") + Count(p, "create") + Count(p, "put") = 0
                   /\ pc[p] \in {"up_58", "idle"}
                   /\ pc[p] = "idle" => upres[p] = [success |-> FALSE, kind |-> "token"]
            /\ (access_token[p] # None /\ folder_id[p] = None /\ pc[p] \in {"up_66", "idle"}) =>
                   /\ Count(p, "put") = 0
                   /\ pc[p] = "idle" => upres[p] = [success |-> FALSE, kind |-> "folder"]

\* C6, witness: an upload that exchanged a token, created the folder, and
\* whose PUT was refused.
C6_Witness ==
    \E p \in procs :
        /\ op[p] = "upload"
        /\ Count(p, "token") = 1
        /\ Count(p, "create") = 1
        /\ Count(p, "put") = 1
        /\ upres[p] = [success |-> FALSE, kind |-> "http"]

\* C7, as stated: whatever the handler, a failure that reaches its catch-all
\* is answered with status 500 and the exception's message.
C7_EveryFailureIs500 ==
    \A p \in procs :
        http[p].raised # "none" =>
            /\ http[p].resp.status = 500
            /\ ~http[p].resp.ok
            /\ http[p].resp.data[2] = http[p].raised

\* C7, amended: a failure that reaches a handler's catch-all is answered
\* with an error response carrying the exception's message, with status 500
\* in start_translation, check_status, get_result, languages and formats,
\* and status 503 in health.
C7_FailureIs500Or503 ==
    \A p \in procs :
        http[p].raised # "none" =>
            /\ http[p].resp.status = (IF http[p].h = "health" THEN 503 ELSE 500)
            /\ ~http[p].resp.ok
            /\ http[p].resp.data[2] = http[p].raised

\* C7, witness: health has answered a failure raised in its body.
C7_Witness ==
    \E p \in procs :
        /\ http[p].h = "health"
        /\ http[p].raised # "none"
        /\ http[p].resp.status = 503

\* A start_translation request whose body is a JSON object naming a blob.
NamesBlob(p) ==
    /\ http[p].h = "start_translation"
    /\ http[p].req.body = "object"
    /\ http[p].req.blob_name # "missing"

\* C8, as stated: start_translation answers 404 whenever the source blob is
\* absent, whatever the other fields, and 202 with a non-empty
\* translation_id for every valid request whose blob exists.
C8_AbsentIs404ValidIs202 ==
    \A p \in procs :
        NamesBlob(p) =>
            /\ http[p].req.blob = "absent" => http[p].resp.status = 404
            /\ (/\ http[p].req.blob = "exists"
                /\ http[p].req.blob_name = "valid"
                /\ http[p].req.target_language = "valid"
                /\ http[p].req.user_id = "valid")
               => (/\ http[p].resp.status = 202
                   /\ http[p].resp.data.translation_id # "")

\* C8, amended: start_translation answers 400 to an empty body and to a
\* body that is no JSON, and 500 to a body that is a JSON number; a JSON
\* object lacking blob_name, target_language or user_id is answered 400
\* before any blob is looked up; an object carrying all three, whatever
\* their values, is answered 500 when the blob store raises, otherwise 404
\* when the source blob is absent, otherwise 500 when the URL preparation
\* or the translation engine raises, and otherwise 202 with, as
\* translation_id, the (non-empty) identifier the engine returned.
C8_PresentFieldsAbsentIs404 ==
    \A p \in procs :
        http[p].h = "start_translation" =>
            IF http[p].req.body \in {"empty", "badjson"}
              THEN http[p].resp.status = 400
            ELSE IF http[p].req.body = "number"
              THEN http[p].resp.status = 500
            ELSE IF "missing" \in {http[p].req.blob_name,
                                   http[p].req.target_language,
                                   http[p].req.user_id}
              THEN http[p].resp.status = 400
            ELSE IF http[p].req.deps.store = "raise"
              THEN http[p].resp.status = 500
            ELSE IF http[p].req.blob = "absent"
              THEN http[p].resp.status = 404
            ELSE IF "raise" \in {http[p].req.deps.prepare, http[p].req.deps.engine}
              THEN http[p].resp.status = 500
            ELSE /\ http[p].resp.status = 202
                 /\ http[p].resp.data.translation_id = http[p].req.deps.engine
                 /\ http[p].resp.data.translation_id # ""

\* C8, witness: a request for an absent blob with a target language no
\* service can use has been answered 404.
C8_Witness ==
    \E p \in procs :
        /\ NamesBlob(p)
        /\ http[p].req.blob = "absent"
        /\ http[p].req.target_language = "invalid"
        /\ http[p].resp.status = 404

\* C9, as stated: for every source blob name and target language given to
\* get_result, with or without a dot in the name, the handler answers 404
\* when the translated artifact is missing and 200 with download_url when it
\* is there, and the artifact looked up is <base>-<target_language>.<ext>
\* when the name is <base>.<ext> with no dot in <ext>.
C9_ResultIs404Or200 ==
    \A p \in procs :
        (/\ http[p].h = "get_result"
         /\ pc[p] = "idle"
         /\ http[p].req.blob_name # <<>>
         /\ http[p].req.target_language # <<>>
         /\ http[p].raised \notin {"StorageError", "DownloadError"})
        => /\ http[p].resp.status = (IF http[p].req.store = "none" THEN 404 ELSE 200)
           /\ http[p].resp.status = 200 => http[p].resp.data.download_url = "url"
           /\ \A base, ext \in Texts(MaxNameLen) :
                  (/\ http[p].req.blob_name = base \o <<".">> \o ext
                   /\ \A i \in 1..Len(ext) : ext[i] # ".")
                  => http[p].lookup =
                         base \o <<"-">> \o http[p].req.target_language \o <<".">> \o ext

\* C10: one call of upload_to_onedrive (and one call of _get_access_token)
\* issues each kind of request at most once, whatever the answers.
C10_NoRetries ==
    \A p \in procs :
        \A kind \in {"token", "list", "create", "put", "contents", "delete"} :
            Count(p, kind) <= 1

\* C10, witness: an upload whose listing and whose PUT were refused has
\* returned, after one request of each kind.
C10_Witness ==
    \E p \in procs :
        /\ op[p] = "upload"
        /\ pc[p] = "idle"
        /\ Len(net[p]) = 4
        /\ net[p][2] = [req |-> "list", status |-> 500]
        /\ net[p][4] = [req |-> "put", status |-> 500]
        /\ ~upres[p].success

\* C11: a call of _get_access_token that has returned no token leaves the
\* cache as it found it: the cached token and the cached expiry equal those
\* at the call's entry, whatever made the call fail.
C11_FailedCallLeavesCache ==
    \A p \in procs :
        (tokret[p].via # "none" /\ tokret[p].tok = None)
            => /\ _access_token = entry[p].tok
               /\ _token_expires_at = entry[p].exp

====
